---- MODULE Spec2Model ----
(***************************************************************************)
(* State-machine model of the ferroalloy-production gridding pipeline      *)
(* (src/gch4i/sector_code/2C2_ferroalloy_production.py, STEP 4 to STEP 6)  *)
(* and of the helpers it calls in src/gch4i/utils.py.                      *)
(*                                                                         *)
(* Numbers.  The program computes in IEEE doubles.  The model computes in  *)
(* exact rationals [n, d] in lowest terms, extended by the three           *)
(* non-finite doubles: d = 0 and n = 0 is NaN, d = 0 and n = 1 / -1 is     *)
(* +inf / -inf.  Rounding is therefore not modelled; NaN and infinity      *)
(* propagation, fillna, the NaN-skipping pandas sum and numpy.isclose are. *)
(*                                                                         *)
(* Geometry.  A point is an integer coordinate on a line, NoLoc is the     *)
(* empty point that points_from_xy gives to a facility without latitude    *)
(* and longitude.  A grid is a function from Cells to numbers.             *)
(***************************************************************************)
EXTENDS Integers, Sequences, FiniteSets, TLC

-----------------------------------------------------------------------------
(* Bounds of the model.                                                    *)

\* most rows of the facility table of a pipeline run
MaxFac == 2
\* most facilities of one (state, year) group handed to the allocator alone
MaxGroup == 3
\* most features handed to the rasterizer alone
MaxFeat == 3
\* most rows of an inventory table handed to the allocator alone
MaxInv == 2

-----------------------------------------------------------------------------
(* The state.                                                              *)

VARIABLES
    pc,                       \* the position of the script
    run,                      \* the number of the current run of the script
    EPA_ferro_emissions,      \* the inventory table: rows [state_code, year, ch4_kt]
    ferro_facilities_gdf,     \* the facility table: rows [state_code, year, ch4_kt, geometry]
    area_matrix,              \* load_area_matrix(): the area of every cell
    allocated_ch4_kt,         \* the column added in STEP 4, << >> while unassigned
    sum_check,                \* the QA table of STEP 4
    rasterize_calls,          \* the [year, shapes] of every call of rasterize
    ch4_kt_result_rasters,    \* dict year -> mass grid, as items in insertion order
    ch4_flux_result_rasters,  \* dict year -> flux grid, as items in insertion order
    printed,                  \* the checks printed by STEP 6, one record per year
    all_equal,                \* << >>, then <<the value of all_equal>>
    files,                    \* << >>, then <<kt tif, flux tif, flux netCDF>>
    previous,                 \* the files written by the run before this one
    fn_args,                  \* the arguments of a function called on its own
    fn_ret                    \* and what it returned

vars == <<pc, run, EPA_ferro_emissions, ferro_facilities_gdf, area_matrix,
          allocated_ch4_kt, sum_check, rasterize_calls, ch4_kt_result_rasters,
          ch4_flux_result_rasters, printed, all_equal, files, previous,
          fn_args, fn_ret>>

inputs == <<EPA_ferro_emissions, ferro_facilities_gdf, area_matrix>>

-----------------------------------------------------------------------------
(* Arithmetic of doubles, as exact rationals plus NaN and the infinities.  *)

Abs(i) == IF i < 0 THEN -i ELSE i

Sgn(i) == IF i < 0 THEN -1 ELSE IF i > 0 THEN 1 ELSE 0

RECURSIVE Gcd(_, _)
Gcd(a, b) == IF b = 0 THEN a ELSE Gcd(b, a % b)

\* the rational n/d, d > 0, in lowest terms
Norm(n, d) ==
    CHOOSE q \in {[n |-> n \div g, d |-> d \div g] : g \in {Gcd(Abs(n), d)}} : TRUE

R(i) == [n |-> i, d |-> 1]

NaN == [n |-> 0, d |-> 0]

IsNaN(a) == a.d = 0 /\ a.n = 0

IsFinite(a) == a.d # 0

\* TLC evaluates the argument of an operator anew at every place the operator
\* uses it; the arithmetic binds its operands once, as x and y, before it
\* reads them (CHOOSE over a set of one element)
Add(a, b) ==
    CHOOSE sum \in
        {IF x.d = 0 /\ y.d = 0 THEN (IF x.n = y.n THEN x ELSE NaN)
         ELSE IF x.d = 0 THEN x
         ELSE IF y.d = 0 THEN y
         ELSE Norm(x.n * y.d + y.n * x.d, x.d * y.d) : x \in {a}, y \in {b}} : TRUE

Neg(a) == CHOOSE neg \in {[n |-> -x.n, d |-> x.d] : x \in {a}} : TRUE

Sub(a, b) == Add(a, Neg(b))

Mul(a, b) ==
    CHOOSE product \in
        {IF x.d = 0 \/ y.d = 0 THEN [n |-> Sgn(x.n) * Sgn(y.n), d |-> 0]
         ELSE Norm(x.n * y.n, x.d * y.d) : x \in {a}, y \in {b}} : TRUE

\* IEEE division: 0/0 and inf/inf are NaN, x/0 is an infinity, x/inf is 0
Div(a, b) ==
    CHOOSE quotient \in
        {IF IsNaN(x) \/ IsNaN(y) THEN NaN
         ELSE IF x.d = 0 THEN (IF y.d = 0 THEN NaN
                               ELSE [n |-> x.n * (IF y.n < 0 THEN -1 ELSE 1), d |-> 0])
         ELSE IF y.d = 0 THEN R(0)
         ELSE IF y.n = 0 THEN [n |-> Sgn(x.n), d |-> 0]
         ELSE Norm(x.n * y.d * Sgn(y.n), x.d * Abs(y.n)) : x \in {a}, y \in {b}} : TRUE

\* a < b and a <= b on finite numbers
Lt(a, b) == \E x \in {a}, y \in {b} : x.n * y.d < y.n * x.d

Le(a, b) == \E x \in {a}, y \in {b} : x.n * y.d <= y.n * x.d

\* pandas Series.sum(): NaN entries are skipped, an empty sum is 0
RECURSIVE PdSum(_)
PdSum(s) ==
    IF s = << >> THEN R(0)
    ELSE IF IsNaN(Head(s)) THEN PdSum(Tail(s))
    ELSE Add(Head(s), PdSum(Tail(s)))

\* numpy ndarray.sum(): NaN is not skipped
RECURSIVE NpSum(_)
NpSum(s) == IF s = << >> THEN R(0) ELSE Add(Head(s), NpSum(Tail(s)))

\* fillna(0) left out: a NaN stays a NaN
FillNaMissing(a) == a

\* Series.fillna(0)
FillNa0(a) == CHOOSE v \in {IF IsNaN(x) THEN R(0) ELSE x : x \in {a}} : TRUE

\* numpy.isclose(a, b) with its defaults rtol = 1e-05, atol = 1e-08, equal_nan = False:
\*   |a - b| <= atol + rtol * |b|.
\* With |a - b| = p/q and |b| = r/s this is p * 10^8 * s <= q * (s + 1000 * r),
\* evaluated as 10^8 <= (q * (s + 1000 * r)) \div (p * s) to stay within TLC's integers.
IsClose(a, b) ==
    \E x \in {a}, y \in {b} :
        IF IsNaN(x) \/ IsNaN(y) THEN FALSE
        ELSE IF x.d = 0 \/ y.d = 0 THEN x = y
        ELSE \E diff \in {Sub(x, y)} :
                LET p == Abs(diff.n)
                    q == diff.d
                    r == Abs(y.n)
                    s == y.d
                IN  IF p = 0 THEN TRUE
                    ELSE 100000000 <= (q * (s + 1000 * r)) \div (p * s)

-----------------------------------------------------------------------------
(* Sequence helpers for the tabular operations.                            *)

Range(s) == {s[i] : i \in 1..Len(s)}

\* the elements of a finite set of integers in ascending order
RECURSIVE SortedSeq(_)
SortedSeq(S) ==
    IF S = {} THEN << >>
    ELSE LET m == CHOOSE x \in S : \A y \in S : x <= y
         IN  <<m>> \o SortedSeq(S \ {m})

-----------------------------------------------------------------------------
(* Input domains of the model.                                             *)

\* state codes of the inventory and of the facilities
States == {"OH", "PA"}

\* years between min_year and max_year: one leap year, one common year
Years == {2020, 2021}

\* raw facility emissions (ch4_kt of a facility row)
FacValues == {0, 2}

\* inventory totals (ch4_kt of a state and year)
InvTotals == {0, 6}

\* a geometry is the tuple of its coordinates: <<x>> for a point, << >> for
\* the empty point of a facility whose location was not resolved
NoLoc == << >>

PointAt(x) == <<x>>

\* coordinates of the located facilities of a run
Points == {1, 2}

\* the cells of the grid (ARR_SHAPE flattened)
Cells == {0, 1}

\* the cell a point falls in: floor of the inverse affine transform, two
\* coordinate units per cell
CellOf(geometry) == geometry[1] \div 2

-----------------------------------------------------------------------------
(* utils.py                                                                *)

\* calendar.monthrange(year, month)[1]
IsLeap(year) == year % 4 = 0 /\ (year % 100 # 0 \/ year % 400 = 0)

MonthRange(year, month) ==
    IF month = 2 THEN (IF IsLeap(year) THEN 29 ELSE 28)
    ELSE IF month \in {4, 6, 9, 11} THEN 30
    ELSE 31

\* month_days = [calendar.monthrange(year, x)[1] for x in range(1, 13)];
\* year_days = np.sum(month_days)
RECURSIVE SumMonths(_, _)
SumMonths(year, month) ==
    IF month = 0 THEN 0 ELSE MonthRange(year, month) + SumMonths(year, month - 1)

YearDays(year) == SumMonths(year, 12)

\* 10**9 * Avogadro / float(Molarch4 * 24 * 60 * 60), the part of the factor
\* that depends on neither argument, taken as the unit of the factor (the
\* double 10**9 * Avogadro / (16.04 * 86400) does not fit TLC's integers)
FactorUnit == R(1)

\* the factor multiplied by the area instead of divided by it
ConversionTimesArea(year_days, area) == Mul(Div(FactorUnit, R(year_days)), area)

\* calc_conversion_factor(year_days, area_matrix), where areas is area_matrix:
\*   10**9 * Avogadro / float(Molarch4 * year_days * 24 * 60 * 60) / area_matrix
ConversionOfCell(year_days, area) == Div(Div(FactorUnit, R(year_days)), area)

calc_conversion_factor(year_days, areas) ==
    [c \in DOMAIN areas |-> ConversionOfCell(year_days, areas[c])]

-----------------------------------------------------------------------------
(* STEP 4: allocation of state / year emissions to the facilities          *)

\* inventory_df[(state_code == state) & (year == year)]["ch4_kt"]
InventoryMatches(inventory_df, state, year) ==
    LET rows == SelectSeq(inventory_df,
                          LAMBDA r : r.state_code = state /\ r.year = year)
    IN  [i \in 1..Len(rows) |-> rows[i].ch4_kt]

\* the fraction of the group, not scaled by the state total
ShareUnscaled(value, total, emi_sum) == Div(value, total)

\* the state total and the group sum taken for each other
ShareSwapped(value, total, emi_sum) == Mul(Div(value, emi_sum), total)

\* (fac_emissions / fac_emissions.sum()) * emi_sum, one facility
Share(value, total, emi_sum) == Mul(Div(value, total), emi_sum)

\* a group without an inventory row allocated zeros instead of raising
allocation_or_zeros(fac_emissions, name, inventory_df) ==
    LET matches == InventoryMatches(inventory_df, name[1], name[2])
    IN  IF matches = << >>
        THEN [raised |-> FALSE, value |-> [i \in 1..Len(fac_emissions) |-> R(0)]]
        ELSE LET emi_sum == matches[1]
                 total == PdSum(fac_emissions)
             IN  [raised |-> FALSE,
                  value |-> [i \in 1..Len(fac_emissions) |->
                               FillNa0(Share(fac_emissions[i], total, emi_sum))]]

\* state_year_allocation_emissions(fac_emissions, inventory_df), where
\* name = fac_emissions.name is the (state, year) of the group.  The result is
\* [raised, value]: .iat[0] of an empty selection raises IndexError, and
\* nothing is returned then.
state_year_allocation_emissions(fac_emissions, name, inventory_df) ==
    LET matches == InventoryMatches(inventory_df, name[1], name[2])
    IN  IF matches = << >> THEN [raised |-> TRUE, value |-> << >>]
        ELSE LET emi_sum == matches[1]
                 total == PdSum(fac_emissions)
             IN  [raised |-> FALSE,
                  value |-> [i \in 1..Len(fac_emissions) |->
                               FillNa0(Share(fac_emissions[i], total, emi_sum))]]

\* the key of a row in groupby(["state_code", "year"])
KeyOf(row) == <<row.state_code, row.year>>

\* the ch4_kt values of the rows of one group, in row order
GroupValues(gdf, key) ==
    LET rows == SelectSeq(gdf, LAMBDA r : KeyOf(r) = key)
    IN  [i \in 1..Len(rows) |-> rows[i].ch4_kt]

\* position of row i within its group
RankInGroup(gdf, i) == Cardinality({j \in 1..i : KeyOf(gdf[j]) = KeyOf(gdf[i])})

\* groupby(["state_code", "year"])["ch4_kt"].transform(
\*     state_year_allocation_emissions, inventory_df=EPA_ferro_emissions):
\* the function is applied to every group and its result is aligned with the
\* rows; an exception in any group propagates and no column is produced
TransformAllocation(gdf, inventory_df) ==
    LET alloc(key) ==
            state_year_allocation_emissions(GroupValues(gdf, key), key, inventory_df)
    IN  IF \E i \in 1..Len(gdf) : alloc(KeyOf(gdf[i])).raised
        THEN [raised |-> TRUE, value |-> << >>]
        ELSE [raised |-> FALSE,
              value |-> [i \in 1..Len(gdf) |->
                           alloc(KeyOf(gdf[i])).value[RankInGroup(gdf, i)]]]

\* ferro_facilities_gdf.groupby(["state_code", "year"])["allocated_ch4_kt"].sum()
\* of one group
GroupAllocated(gdf, allocated, key) ==
    LET idx == SelectSeq([i \in 1..Len(gdf) |-> i], LAMBDA i : KeyOf(gdf[i]) = key)
    IN  PdSum([k \in 1..Len(idx) |-> allocated[idx[k]]])

GroupKeys(gdf) == {KeyOf(gdf[i]) : i \in 1..Len(gdf)}

\* the rows of gdf that are the first of their group
FirstOfGroup(gdf) ==
    SelectSeq([i \in 1..Len(gdf) |-> i],
              LAMBDA i : \A j \in 1..(i - 1) : KeyOf(gdf[j]) # KeyOf(gdf[i]))

\* one row of sum_check: the merged columns and check_diff =
\* np.isclose(x["allocated_ch4_kt"], x["ch4_kt"])
SumCheckRow(state, year, allocated, ch4_kt) ==
    [state_code |-> state, year |-> year, allocated_ch4_kt |-> allocated,
     ch4_kt |-> ch4_kt, check_diff |-> IsClose(allocated, ch4_kt)]

\* sum_check: the group sums of allocated_ch4_kt merged (how="outer") with the
\* inventory on state_code and year.  One row per inventory row, carrying the
\* sum of its group or NaN when no facility has that state and year, then one
\* row with ch4_kt = NaN per group without an inventory row.  (pandas orders
\* the rows by key; nothing read from sum_check depends on the order.)
SumCheck(gdf, allocated, inventory_df) ==
    LET inv_part ==
            [k \in 1..Len(inventory_df) |->
                LET r == inventory_df[k]
                    key == <<r.state_code, r.year>>
                IN  SumCheckRow(r.state_code, r.year,
                                IF key \in GroupKeys(gdf)
                                THEN GroupAllocated(gdf, allocated, key) ELSE NaN,
                                r.ch4_kt)]
        left_only ==
            SelectSeq(FirstOfGroup(gdf),
                      LAMBDA i : InventoryMatches(inventory_df, gdf[i].state_code,
                                                  gdf[i].year) = << >>)
        left_part ==
            [k \in 1..Len(left_only) |->
                LET key == KeyOf(gdf[left_only[k]])
                IN  SumCheckRow(key[1], key[2],
                                GroupAllocated(gdf, allocated, key), NaN)]
    IN  inv_part \o left_part

-----------------------------------------------------------------------------
(* STEP 5: rasterize the ch4 kt and flux                                   *)

\* the grid before anything is burned: fill=0
ZeroGrid == [c \in Cells |-> R(0)]

\* MergeAlg.replace: the value of the last shape of a cell overwrites the cell
BurnReplace(grid, shape) ==
    IF shape[1] = << >> THEN grid
    ELSE IF (shape[1][1] \div 2) \notin DOMAIN grid THEN grid
    ELSE [grid EXCEPT ![shape[1][1] \div 2] = shape[2]]

\* MergeAlg.add of one (shape, value) pair: the value is added to the cell the
\* point falls in; an empty point, or a point outside the grid, burns nothing
Burn(grid, shape) ==
    IF shape[1] = NoLoc THEN grid
    ELSE IF CellOf(shape[1]) \notin Cells THEN grid
    ELSE [grid EXCEPT ![CellOf(shape[1])] = Add(@, shape[2])]

\* rasterize(shapes, out_shape=ARR_SHAPE, fill=0, transform, dtype=float64,
\*           merge_alg=MergeAlg.add): the shapes are burned in their order
RECURSIVE BurnAll(_, _)
BurnAll(grid, shapes) ==
    IF shapes = << >> THEN grid
    ELSE BurnAll(Burn(grid, Head(shapes)), Tail(shapes))

\* the shapes burned onto the first grid the run before wrote, not onto a
\* grid of zeros
rasterizeOnto(shapes) ==
    BurnAll(IF previous = << >> THEN ZeroGrid ELSE previous[1].bands[1], shapes)

rasterize(shapes) == BurnAll(ZeroGrid, shapes)

\* data = the rows of one year (ferro_facilities_gdf.groupby("year")), as row numbers
RowsOfYear(gdf, year) ==
    SelectSeq([i \in 1..Len(gdf) |-> i], LAMBDA i : gdf[i].year = year)

\* [(shape, value) for shape, value in data[["geometry", "allocated_ch4_kt"]].values]
ShapesOfYear(gdf, allocated, year) ==
    LET idx == RowsOfYear(gdf, year)
    IN  [k \in 1..Len(idx) |-> <<gdf[idx[k]].geometry, allocated[idx[k]]>>]

\* ch4_kt_raster * conversion_factor_annual
FluxRaster(ch4_kt_raster, conversion_factor_annual) ==
    [c \in DOMAIN ch4_kt_raster |-> Mul(ch4_kt_raster[c], conversion_factor_annual[c])]

\* the keys of ferro_facilities_gdf.groupby("year"), ascending
YearKeys(gdf) == SortedSeq({gdf[i].year : i \in 1..Len(gdf)})

-----------------------------------------------------------------------------
(* STEP 6: checks of the sums, and the written files                       *)

\* raster.sum() / arr.sum()
RasterSum(raster) ==
    LET cs == SortedSeq(DOMAIN raster)
    IN  NpSum([k \in 1..Len(cs) |-> raster[cs[k]]])

\* ferro_facilities_gdf.query("year == @year")["allocated_ch4_kt"].sum()
FacSum(gdf, allocated, year) ==
    LET idx == RowsOfYear(gdf, year)
    IN  PdSum([k \in 1..Len(idx) |-> allocated[idx[k]]])

\* EPA_ferro_emissions.query("year == @year")["ch4_kt"].sum()
EmiSum(inventory_df, year) ==
    LET rows == SelectSeq(inventory_df, LAMBDA r : r.year = year)
    IN  PdSum([k \in 1..Len(rows) |-> rows[k].ch4_kt])

\* sum_check[(~sum_check["check_diff"]) & (sum_check["year"] == year)]["ch4_kt"].sum()
MissingSum(sumcheck, year) ==
    LET rows == SelectSeq(sumcheck, LAMBDA r : ~r.check_diff /\ r.year = year)
    IN  PdSum([k \in 1..Len(rows) |-> rows[k].ch4_kt])

\* the three lines printed for one year of ch4_kt_result_rasters
YearCheck(year, raster, gdf, allocated, inventory_df, sumcheck) ==
    LET raster_sum == RasterSum(raster)
        fac_sum == FacSum(gdf, allocated, year)
        emi_sum == EmiSum(inventory_df, year)
        missing_sum == MissingSum(sumcheck, year)
    IN  [year |-> year, raster_sum |-> raster_sum, fac_sum |-> fac_sum,
         emi_sum |-> emi_sum, missing_sum |-> missing_sum,
         raster_eq_fac |-> IsClose(raster_sum, fac_sum),
         raster_eq_total |-> IsClose(raster_sum, emi_sum),
         missing_eq |-> IsClose(Sub(emi_sum, raster_sum), missing_sum)]

\* the value of key in a dictionary kept as a sequence of [year, array] items
\* in insertion order
HasKey(dict, year) == \E k \in 1..Len(dict) : dict[k].year = year

Lookup(dict, year) == dict[CHOOSE k \in 1..Len(dict) : dict[k].year = year].array

\* a new key put in front of the keys the dictionary holds
SetItemFront(dict, year, array) ==
    IF HasKey(dict, year)
    THEN [k \in 1..Len(dict) |->
            IF dict[k].year = year THEN [year |-> year, array |-> array] ELSE dict[k]]
    ELSE <<[year |-> year, array |-> array]>> \o dict

\* dict[year] = array: a new key is appended, an existing key keeps its place
SetItem(dict, year, array) ==
    IF HasKey(dict, year)
    THEN [k \in 1..Len(dict) |->
            IF dict[k].year = year THEN [year |-> year, array |-> array] ELSE dict[k]]
    ELSE Append(dict, [year |-> year, array |-> array])

\* emissions_by_year_check: the inventory summed by year, joined (left) with
\* the gridded sums, isclose of the two; all_equal = every year is close
AllEqual(inventory_df, kt_rasters) ==
    \A y \in {inventory_df[k].year : k \in 1..Len(inventory_df)} :
        IsClose(EmiSum(inventory_df, y),
                IF HasKey(kt_rasters, y) THEN RasterSum(Lookup(kt_rasters, y)) ELSE NaN)

\* write_tif_output(in_dict, dst_path): out_array = np.stack(list(in_dict.values())),
\* dst.write(out_array), dst.descriptions = [str(x) for x in in_dict.keys()]
write_tif_output(in_dict) ==
    [count |-> Len(in_dict),
     bands |-> [k \in 1..Len(in_dict) |-> in_dict[k].array],
     descriptions |-> [k \in 1..Len(in_dict) |-> ToString(in_dict[k].year)]]

\* write_ncdf_output(raster_dict, ...): the time coordinate is the key list,
\* the data the stacked values
write_ncdf_output(raster_dict) ==
    [time |-> [k \in 1..Len(raster_dict) |-> raster_dict[k].year],
     data |-> [k \in 1..Len(raster_dict) |-> raster_dict[k].array]]

-----------------------------------------------------------------------------
(* The inputs of a run.                                                    *)

StateSeq == <<"OH", "PA">>

FacRow == [state_code : States, year : Years,
           ch4_kt : {R(v) : v \in FacValues},
           geometry : {NoLoc} \cup {PointAt(x) : x \in Points}]

\* the facility table is a wide table, one column per year, melted (lines
\* 233-249): its rows are listed year by year
FacTables ==
    {t \in UNION {[1..n -> FacRow] : n \in 1..MaxFac} :
        \A i \in 1..(Len(t) - 1) : t[i].year <= t[i + 1].year}

\* the inventory is a wide table, one line per state, melted: every state of
\* the table has one row for every year
Inventory(present, total) ==
    LET ys == SortedSeq(Years)
        ns == Len(StateSeq)
        all == [k \in 1..(Len(ys) * ns) |->
                  [state_code |-> StateSeq[((k - 1) % ns) + 1],
                   year |-> ys[((k - 1) \div ns) + 1]]]
        kept == SelectSeq(all, LAMBDA r : r.state_code \in present)
    IN  [k \in 1..Len(kept) |->
            [state_code |-> kept[k].state_code, year |-> kept[k].year,
             ch4_kt |-> R(total[kept[k].state_code, kept[k].year])]]

Inventories ==
    {Inventory(present, total) :
        present \in SUBSET States, total \in [States \X Years -> InvTotals]}

\* gridded_area_m2.tif: a strictly positive area for every cell
GriddedArea == [c \in Cells |-> R(c + 1)]

-----------------------------------------------------------------------------
(* The script, from STEP 4 to the written files.                           *)

\* what a run has computed, before it computes anything
RunStart ==
    /\ allocated_ch4_kt = << >>
    /\ sum_check = << >>
    /\ rasterize_calls = << >>
    /\ ch4_kt_result_rasters = << >>
    /\ ch4_flux_result_rasters = << >>
    /\ printed = << >>
    /\ all_equal = << >>
    /\ files = << >>

Init ==
    /\ pc = "load"
    /\ run = 1
    /\ EPA_ferro_emissions = << >>
    /\ ferro_facilities_gdf = << >>
    /\ area_matrix = << >>
    /\ RunStart
    /\ previous = << >>
    /\ fn_args = << >>
    /\ fn_ret = << >>

\* lines 103-405: the area matrix, the inventory table and the facility table
\* with its geometries are read
LoadInputs ==
    /\ pc = "load"
    /\ EPA_ferro_emissions' \in Inventories
    /\ ferro_facilities_gdf' \in FacTables
    /\ area_matrix' = GriddedArea
    /\ pc' = "step4"
    /\ UNCHANGED <<run, allocated_ch4_kt, sum_check, rasterize_calls,
                   ch4_kt_result_rasters, ch4_flux_result_rasters, printed,
                   all_equal, files, previous, fn_args, fn_ret>>

\* lines 476-478: the allocated_ch4_kt column; an IndexError of the allocation
\* function ends the script
Allocate ==
    /\ pc = "step4"
    /\ LET res == TransformAllocation(ferro_facilities_gdf, EPA_ferro_emissions)
       IN  IF res.raised
           THEN /\ pc' = "raised"
                /\ UNCHANGED allocated_ch4_kt
           ELSE /\ pc' = "sum_check"
                /\ allocated_ch4_kt' = res.value
    /\ UNCHANGED <<run, inputs, sum_check, rasterize_calls, ch4_kt_result_rasters,
                   ch4_flux_result_rasters, printed, all_equal, files, previous,
                   fn_args, fn_ret>>

\* a mismatch of the allocation check made fatal
QaSumCheckStrict ==
    /\ pc = "sum_check"
    /\ sum_check' = SumCheck(ferro_facilities_gdf, allocated_ch4_kt, EPA_ferro_emissions)
    /\ ch4_kt_result_rasters' = << >>
    /\ ch4_flux_result_rasters' = << >>
    /\ pc' = IF \E k \in 1..Len(sum_check') : ~sum_check'[k].check_diff
             THEN "raised" ELSE "step5"
    /\ UNCHANGED <<run, inputs, allocated_ch4_kt, rasterize_calls, printed,
                   all_equal, files, previous, fn_args, fn_ret>>

\* lines 483-516: the sum_check table is built and displayed, the two result
\* dictionaries are created empty
QaSumCheck ==
    /\ pc = "sum_check"
    /\ sum_check' = SumCheck(ferro_facilities_gdf, allocated_ch4_kt, EPA_ferro_emissions)
    /\ ch4_kt_result_rasters' = << >>
    /\ ch4_flux_result_rasters' = << >>
    /\ pc' = "step5"
    /\ UNCHANGED <<run, inputs, allocated_ch4_kt, rasterize_calls, printed,
                   all_equal, files, previous, fn_args, fn_ret>>

\* the loop left after its first turn, whatever years remain
RasterizeYearOnce ==
    /\ pc = "step5"
    /\ LET keys == YearKeys(ferro_facilities_gdf)
           k == Len(rasterize_calls) + 1
           year == keys[k]
           year_days == YearDays(year)
           shapes == ShapesOfYear(ferro_facilities_gdf, allocated_ch4_kt, year)
           ch4_kt_raster == rasterize(shapes)
           conversion_factor_annual == calc_conversion_factor(year_days, area_matrix)
           ch4_flux_raster == FluxRaster(ch4_kt_raster, conversion_factor_annual)
       IN  /\ rasterize_calls' = Append(rasterize_calls, [year |-> year, shapes |-> shapes])
           /\ ch4_kt_result_rasters' = SetItem(ch4_kt_result_rasters, year, ch4_kt_raster)
           /\ ch4_flux_result_rasters' = SetItem(ch4_flux_result_rasters, year, ch4_flux_raster)
           /\ pc' = "step6"
    /\ UNCHANGED <<run, inputs, allocated_ch4_kt, sum_check, printed, all_equal,
                   files, previous, fn_args, fn_ret>>

\* lines 518-538: one turn of the loop over ferro_facilities_gdf.groupby("year")
RasterizeYear ==
    /\ pc = "step5"
    /\ LET keys == YearKeys(ferro_facilities_gdf)
           k == Len(rasterize_calls) + 1
           year == keys[k]
           year_days == YearDays(year)
           shapes == ShapesOfYear(ferro_facilities_gdf, allocated_ch4_kt, year)
           ch4_kt_raster == rasterize(shapes)
           conversion_factor_annual == calc_conversion_factor(year_days, area_matrix)
           ch4_flux_raster == FluxRaster(ch4_kt_raster, conversion_factor_annual)
       IN  /\ rasterize_calls' = Append(rasterize_calls, [year |-> year, shapes |-> shapes])
           /\ ch4_kt_result_rasters' = SetItem(ch4_kt_result_rasters, year, ch4_kt_raster)
           /\ ch4_flux_result_rasters' = SetItem(ch4_flux_result_rasters, year, ch4_flux_raster)
           /\ pc' = IF k = Len(keys) THEN "step6" ELSE "step5"
    /\ UNCHANGED <<run, inputs, allocated_ch4_kt, sum_check, printed, all_equal,
                   files, previous, fn_args, fn_ret>>

\* lines 548-571: one turn of the loop over ch4_kt_result_rasters.items()
CheckYear ==
    /\ pc = "step6"
    /\ LET k == Len(printed) + 1
           item == ch4_kt_result_rasters[k]
       IN  /\ printed' = Append(printed,
                                YearCheck(item.year, item.array, ferro_facilities_gdf,
                                          allocated_ch4_kt, EPA_ferro_emissions, sum_check))
           /\ pc' = IF k = Len(ch4_kt_result_rasters) THEN "gridded" ELSE "step6"
    /\ UNCHANGED <<run, inputs, allocated_ch4_kt, sum_check, rasterize_calls,
                   ch4_kt_result_rasters, ch4_flux_result_rasters, all_equal, files,
                   previous, fn_args, fn_ret>>

\* lines 573-597: the gridded sums by year against the inventory by year
GriddedCheck ==
    /\ pc = "gridded"
    /\ all_equal' = <<AllEqual(EPA_ferro_emissions, ch4_kt_result_rasters)>>
    /\ pc' = "write"
    /\ UNCHANGED <<run, inputs, allocated_ch4_kt, sum_check, rasterize_calls,
                   ch4_kt_result_rasters, ch4_flux_result_rasters, printed, files,
                   previous, fn_args, fn_ret>>

\* lines 600-607: the two rasters and the netCDF file are written
WriteFiles ==
    /\ pc = "write"
    /\ files' = <<write_tif_output(ch4_kt_result_rasters),
                  write_tif_output(ch4_flux_result_rasters),
                  write_ncdf_output(ch4_flux_result_rasters)>>
    /\ pc' = "done"
    /\ UNCHANGED <<run, inputs, allocated_ch4_kt, sum_check, rasterize_calls,
                   ch4_kt_result_rasters, ch4_flux_result_rasters, printed, all_equal,
                   previous, fn_args, fn_ret>>

Next ==
    \/ LoadInputs
    \/ Allocate
    \/ QaSumCheck
    \/ RasterizeYear
    \/ CheckYear
    \/ GriddedCheck
    \/ WriteFiles

Spec == Init /\ [][Next]_vars

\* the script is one sequential program: a step that can be taken is taken
FairSpec == Spec /\ WF_vars(Next)

-----------------------------------------------------------------------------
(* The script run again on the same inputs.                                *)

\* the script is started a second time in the same session: the inputs are
\* read again and are the same, what the script assigns by line 478 or later
\* keeps its value until it is assigned again
Rerun ==
    /\ pc = "done"
    /\ run = 1
    /\ run' = run + 1
    /\ previous' = files
    /\ pc' = "step4"
    /\ allocated_ch4_kt' = << >>
    /\ sum_check' = << >>
    /\ rasterize_calls' = << >>
    /\ printed' = << >>
    /\ all_equal' = << >>
    /\ files' = << >>
    /\ UNCHANGED <<inputs, ch4_kt_result_rasters, ch4_flux_result_rasters,
                   fn_args, fn_ret>>

NextRerun == Next \/ Rerun

SpecRerun == Init /\ [][NextRerun]_vars

-----------------------------------------------------------------------------
(* The allocation function called on one group.                            *)

\* the variables of the script, while a function is called on its own
NoScript ==
    /\ run = 1
    /\ EPA_ferro_emissions = << >>
    /\ ferro_facilities_gdf = << >>
    /\ area_matrix = GriddedArea
    /\ RunStart
    /\ previous = << >>

script == <<run, inputs, allocated_ch4_kt, sum_check, rasterize_calls,
            ch4_kt_result_rasters, ch4_flux_result_rasters, printed, all_equal,
            files, previous>>

\* facility values and state totals of a group handed to the allocator
AllocValues == {0, 1, 2, 3}

AllocTotals == {0, 5, 6}

Groups == UNION {[1..n -> {R(v) : v \in AllocValues}] : n \in 1..MaxGroup}

InitAlloc ==
    /\ pc = "call"
    /\ fn_args \in [fac_emissions : Groups, name : {<<"OH", 2020>>},
                    emi_sum : {R(t) : t \in AllocTotals}]
    /\ fn_ret = << >>
    /\ NoScript

\* the group is allocated against an inventory that holds its row
CallAllocation ==
    /\ pc = "call"
    /\ fn_ret' = state_year_allocation_emissions(
                     fn_args.fac_emissions, fn_args.name,
                     <<[state_code |-> fn_args.name[1], year |-> fn_args.name[2],
                        ch4_kt |-> fn_args.emi_sum]>>)
    /\ pc' = "return"
    /\ UNCHANGED <<script, fn_args>>

NextAlloc == CallAllocation

SpecAlloc == InitAlloc /\ [][NextAlloc]_vars

-----------------------------------------------------------------------------
(* rasterize called on a list of shapes, and on the same shapes reordered. *)

\* coordinates and values of the shapes: two points in cell 0, two in cell 1
RasterPoints == {0, 1, 2, 3}

RasterValues == {1, 2}

Shape == ({NoLoc} \cup {PointAt(x) : x \in RasterPoints}) \X {R(v) : v \in RasterValues}

ShapeLists == UNION {[1..n -> Shape] : n \in 1..MaxFeat}

Orders(n) == {f \in [1..n -> 1..n] : \A i, j \in 1..n : f[i] = f[j] => i = j}

Reorder(shapes, perm) == [i \in 1..Len(shapes) |-> shapes[perm[i]]]

InitRaster ==
    /\ pc = "call"
    /\ \E shapes \in ShapeLists :
          \E perm \in Orders(Len(shapes)) :
              fn_args = [shapes |-> shapes, reordered |-> Reorder(shapes, perm)]
    /\ fn_ret = << >>
    /\ NoScript

CallRasterize ==
    /\ pc = "call"
    /\ fn_ret' = [raster |-> rasterize(fn_args.shapes),
                  of_reordered |-> rasterize(fn_args.reordered)]
    /\ pc' = "return"
    /\ UNCHANGED <<script, fn_args>>

NextRaster == CallRasterize

SpecRaster == InitRaster /\ [][NextRaster]_vars

-----------------------------------------------------------------------------
(* calc_conversion_factor called for two day counts and two area matrices. *)

ConvYears == {1900, 2000, 2020, 2021}

\* day counts handed to the function: those of ConvYears (lines 519-520),
\* and two that no year has
DayCounts == {YearDays(y) : y \in ConvYears} \cup {1, 730}

ConvAreas == {1, 2, 3}

AreaMatrices == [Cells -> {R(a) : a \in ConvAreas}]

InitConv ==
    /\ pc = "call"
    /\ fn_args \in [days1 : DayCounts, days2 : DayCounts,
                    area1 : AreaMatrices, area2 : AreaMatrices]
    /\ fn_ret = << >>
    /\ NoScript

\* line 534, for each of the two day counts
CallConversion ==
    /\ pc = "call"
    /\ fn_ret' = [factor1 |-> calc_conversion_factor(fn_args.days1, fn_args.area1),
                  factor2 |-> calc_conversion_factor(fn_args.days2, fn_args.area2)]
    /\ pc' = "return"
    /\ UNCHANGED <<script, fn_args>>

NextConv == CallConversion

SpecConv == InitConv /\ [][NextConv]_vars

-----------------------------------------------------------------------------
(* The allocation function called with an inventory table of any rows, and *)
(* the script.                                                             *)

\* inventory totals of the rows handed to the function
LookupTotals == {5, 6}

InvRow == [state_code : States, year : {2020}, ch4_kt : {R(t) : t \in LookupTotals}]

\* tables of no row, of one row and of more, rows of one (state, year) repeated
\* or not
InvTables == UNION {[1..n -> InvRow] : n \in 0..MaxInv}

InitLookup ==
    /\ pc = "lookup"
    /\ fn_args \in [fac_emissions : Groups, name : {<<"OH", 2020>>},
                    inventory_df : InvTables]
    /\ fn_ret = << >>
    /\ NoScript

\* lines 451-470, called on one group
CallLookup ==
    /\ pc = "lookup"
    /\ fn_ret' = state_year_allocation_emissions(fn_args.fac_emissions, fn_args.name,
                                                 fn_args.inventory_df)
    /\ pc' = "return"
    /\ UNCHANGED <<script, fn_args>>

InitLookupOrRun == InitLookup \/ Init

NextLookup == Next \/ CallLookup

\* the function called alone, or the script run
SpecLookup == InitLookupOrRun /\ [][NextLookup]_vars

-----------------------------------------------------------------------------
(* Claims about the allocation function (SpecAlloc).                       *)

AllocReturned == pc = "return" /\ ~fn_ret.raised

GroupSum == PdSum(fn_args.fac_emissions)

AllZero(values) == \A i \in 1..Len(values) : values[i] = R(0)

\* C1 as stated: for every group with at least one facility record, whatever
\* its non-negative facility values and its state total, the allocated values
\* sum to the state total (within the tolerance of isclose).
C1_SumsToTotalAlways ==
    pc = "return" =>
        /\ ~fn_ret.raised
        /\ IsClose(PdSum(fn_ret.value), fn_args.emi_sum)

\* C1 amended: for every group whose facility values have a positive sum, the
\* allocated values sum to the state total (within the tolerance of isclose);
\* a group whose values are all zero is allocated a sum of zero, whatever the
\* state total.
C1_SumsToTotal ==
    pc = "return" =>
        /\ ~fn_ret.raised
        /\ Lt(R(0), GroupSum) => IsClose(PdSum(fn_ret.value), fn_args.emi_sum)
        /\ AllZero(fn_args.fac_emissions) => PdSum(fn_ret.value) = R(0)

\* a group of three facilities, unequal positive values, whose shares are not
\* whole numbers, has been allocated a positive total
C1_Witness ==
    /\ AllocReturned
    /\ Len(fn_args.fac_emissions) = 3
    /\ \A i \in 1..3 : Lt(R(0), fn_args.fac_emissions[i])
    /\ fn_args.fac_emissions[1] # fn_args.fac_emissions[2]
    /\ \E i \in 1..3 : fn_ret.value[i].d > 1
    /\ fn_args.emi_sum = R(5)

\* C2: when every facility value of the group is zero, the function returns
\* all zeros for any state total, zero or positive: it does not raise, and no
\* value it returns is NaN or infinite.
C2_ZeroSafety ==
    (pc = "return" /\ AllZero(fn_args.fac_emissions)) =>
        /\ ~fn_ret.raised
        /\ Len(fn_ret.value) = Len(fn_args.fac_emissions)
        /\ \A i \in 1..Len(fn_ret.value) :
              /\ IsFinite(fn_ret.value[i])
              /\ fn_ret.value[i] = R(0)

\* three facilities of value zero have been allocated a positive state total
C2_Witness ==
    /\ AllocReturned
    /\ Len(fn_args.fac_emissions) = 3
    /\ AllZero(fn_args.fac_emissions)
    /\ fn_args.emi_sum = R(6)
    /\ fn_ret.value = <<R(0), R(0), R(0)>>

\* C3: for non-negative values v with positive sum S and state total T, the
\* function returns as many values as v has, the i-th being T * v[i] / S;
\* every value is non-negative, and a group of one facility gets the whole of T.
C3_Proportional ==
    (pc = "return" /\ Lt(R(0), GroupSum)) =>
        /\ ~fn_ret.raised
        /\ Len(fn_ret.value) = Len(fn_args.fac_emissions)
        /\ \A i \in 1..Len(fn_ret.value) :
              /\ fn_ret.value[i] =
                    Div(Mul(fn_args.emi_sum, fn_args.fac_emissions[i]), GroupSum)
              /\ Le(R(0), fn_ret.value[i])
        /\ Len(fn_args.fac_emissions) = 1 => fn_ret.value[1] = fn_args.emi_sum

\* values 1 and 3 have been allocated a total of 6: 3/2 and 9/2
C3_Witness ==
    /\ AllocReturned
    /\ fn_args.fac_emissions = <<R(1), R(3)>>
    /\ fn_args.emi_sum = R(6)
    /\ fn_ret.value = <<[n |-> 3, d |-> 2], [n |-> 9, d |-> 2]>>

-----------------------------------------------------------------------------
(* Claims about rasterize (SpecRaster).                                    *)

\* the values of the shapes whose point falls in cell c, in their order
ValuesIn(shapes, c) ==
    LET hit == SelectSeq(shapes, LAMBDA sh : sh[1] # NoLoc /\ CellOf(sh[1]) = c)
    IN  [k \in 1..Len(hit) |-> hit[k][2]]

\* C7: every cell of the grid is the sum of the values of the shapes whose
\* point falls in it (two shapes in one cell give the sum of both values), a
\* cell that holds no shape is exactly 0, and the same shapes in any other
\* order give the same grid.
C7_AdditiveMerge ==
    pc = "return" =>
        /\ DOMAIN fn_ret.raster = Cells
        /\ \A c \in Cells :
              /\ fn_ret.raster[c] = NpSum(ValuesIn(fn_args.shapes, c))
              /\ ValuesIn(fn_args.shapes, c) = << >> => fn_ret.raster[c] = R(0)
        /\ fn_ret.of_reordered = fn_ret.raster

\* two different points of cell 0 with different values and nothing in cell 1
\* have been rasterized, in this order and in the other
C7_Witness ==
    /\ pc = "return"
    /\ fn_args.shapes = <<<<PointAt(0), R(1)>>, <<PointAt(1), R(2)>>>>
    /\ fn_args.reordered = <<<<PointAt(1), R(2)>>, <<PointAt(0), R(1)>>>>
    /\ fn_ret.raster[0] = R(3)
    /\ fn_ret.raster[1] = R(0)

-----------------------------------------------------------------------------
(* Claims about calc_conversion_factor (SpecConv).                         *)

\* C10: in every cell the factor is strictly decreasing in the area of the
\* cell and strictly decreasing in the number of days; the days of 2020 are
\* 366 and those of 2021 are 365, and for the same area matrix the factor of
\* a leap year is strictly smaller in every cell than that of a common year.
C10_FluxFactorScaling ==
    /\ YearDays(2020) = 366
    /\ YearDays(2021) = 365
    /\ pc = "return" =>
          \A c \in Cells :
              /\ (fn_args.days1 = fn_args.days2
                      /\ Lt(fn_args.area1[c], fn_args.area2[c]))
                    => Lt(fn_ret.factor2[c], fn_ret.factor1[c])
              /\ (fn_args.area1[c] = fn_args.area2[c]
                      /\ fn_args.days1 < fn_args.days2)
                    => Lt(fn_ret.factor2[c], fn_ret.factor1[c])
              /\ \A leap, common \in ConvYears :
                    (/\ IsLeap(leap)
                     /\ ~IsLeap(common)
                     /\ fn_args.days1 = YearDays(leap)
                     /\ fn_args.days2 = YearDays(common)
                     /\ fn_args.area1 = fn_args.area2)
                    => Lt(fn_ret.factor1[c], fn_ret.factor2[c])

\* the factors of 2020 and of 2021 have been computed for one area matrix
\* whose two cells differ in area
C10_Witness ==
    /\ pc = "return"
    /\ fn_args.days1 = YearDays(2020)
    /\ fn_args.days2 = YearDays(2021)
    /\ fn_args.area1 = fn_args.area2
    /\ fn_args.area1[0] # fn_args.area1[1]
    /\ Lt(fn_ret.factor1[0], fn_ret.factor2[0])

-----------------------------------------------------------------------------
(* Claims about the checks of a run (Spec, FairSpec, SpecRerun).           *)

Located(row) == row.geometry # NoLoc

\* the inventory totals, in one year, of the states none of whose facilities
\* of that year has a location
ZeroLocatedTotal(year) ==
    LET rows == SelectSeq(EPA_ferro_emissions,
                    LAMBDA r : /\ r.year = year
                               /\ ~\E i \in 1..Len(ferro_facilities_gdf) :
                                      /\ ferro_facilities_gdf[i].state_code = r.state_code
                                      /\ ferro_facilities_gdf[i].year = year
                                      /\ Located(ferro_facilities_gdf[i]))
    IN  PdSum([k \in 1..Len(rows) |-> rows[k].ch4_kt])

\* the allocated emissions, in one year, of the facilities that have a location
LocatedSum(year) ==
    LET idx == SelectSeq(RowsOfYear(ferro_facilities_gdf, year),
                         LAMBDA i : Located(ferro_facilities_gdf[i]))
    IN  PdSum([k \in 1..Len(idx) |-> allocated_ch4_kt[idx[k]]])

\* C4 as stated: for every checked year the gap between the state totals of
\* the year and the sum of the year's mass grid is exactly the sum of the
\* totals of the states with no located facility in that year, and the
\* missing amount of the verifier explains the gap.
C4_GapIsUnlocatedStates ==
    \A k \in 1..Len(printed) :
        /\ Sub(printed[k].emi_sum, printed[k].raster_sum) = ZeroLocatedTotal(printed[k].year)
        /\ printed[k].missing_eq

\* C5 as stated: for every checked year the facility sum the verifier compares
\* with the sum of the grid is the sum of allocated_ch4_kt over the located
\* facilities of the year, and the two compared sums are equal.
C5_RasterEqualsLocated ==
    \A k \in 1..Len(printed) :
        /\ printed[k].fac_sum = LocatedSum(printed[k].year)
        /\ printed[k].raster_eq_fac

\* C6 as stated: every (geometry, value) pair handed to rasterize has a
\* resolved point location, the rows without one having been removed after
\* the allocation, in which they are counted.
C6_OnlyLocatedShapes ==
    /\ allocated_ch4_kt # << >> => Len(allocated_ch4_kt) = Len(ferro_facilities_gdf)
    /\ \A k \in 1..Len(rasterize_calls) :
          \A i \in 1..Len(rasterize_calls[k].shapes) :
              rasterize_calls[k].shapes[i][1] # NoLoc

NumYears == Len(YearKeys(ferro_facilities_gdf))

\* a step taken at or after the allocation check does not end in an exception
NoCheckRaises ==
    pc \in {"sum_check", "step5", "step6", "gridded", "write"} => pc' # "raised"

-----------------------------------------------------------------------------
(* Claims about the written files and the order of the phases (Spec).      *)

\* the years present in the facility records
FacYears == {ferro_facilities_gdf[i].year : i \in 1..Len(ferro_facilities_gdf)}

\* the mass grid of a year, from the facility records and their allocation
MassGridOf(year) ==
    rasterize(ShapesOfYear(ferro_facilities_gdf, allocated_ch4_kt, year))

\* the flux grid of a year, from its mass grid
FluxGridOf(year) ==
    FluxRaster(MassGridOf(year), calc_conversion_factor(YearDays(year), area_matrix))

\* C11: the mass raster and the flux raster each hold exactly one band per
\* year of the facility records; band i is the grid of the i-th smallest year
\* and its label is the string of that same year.
C11_BandStructure ==
    files # << >> =>
        \A f \in 1..2 :
            /\ files[f].count = Cardinality(FacYears)
            /\ Len(files[f].bands) = files[f].count
            /\ Len(files[f].descriptions) = files[f].count
            /\ \A i \in 1..files[f].count :
                  \E y \in FacYears :
                      /\ Cardinality({z \in FacYears : z < y}) = i - 1
                      /\ files[f].descriptions[i] = ToString(y)
                      /\ files[f].bands[i] =
                            (IF f = 1 THEN MassGridOf(y) ELSE FluxGridOf(y))

\* the rasters of a run over 2020 and 2021 have been written, the two years
\* having different grids
C11_Witness ==
    /\ pc = "done"
    /\ files[1].count = 2
    /\ files[1].descriptions = <<"2020", "2021">>
    /\ files[2].descriptions = <<"2020", "2021">>
    /\ files[1].bands[1] # files[1].bands[2]
    /\ files[2].bands[1] # files[2].bands[2]

\* the years a dictionary holds, in its order
KeysOf(dict) == [k \in 1..Len(dict) |-> dict[k].year]

\* C12: a year is rasterized only once every facility row has its allocated
\* value; the flux grid of a year is the conversion of the mass grid stored
\* under that year, and the two dictionaries hold the same years, those
\* rasterized so far; a check of raster sums is printed only once both
\* dictionaries hold every year of the facility records; the files are
\* written only after every year's checks and the gridded check have run,
\* every year having both grids.
C12_PhaseOrdering ==
    /\ rasterize_calls # << >> =>
          /\ Len(allocated_ch4_kt) = Len(ferro_facilities_gdf)
          /\ \A k \in 1..Len(rasterize_calls) :
                \A i \in 1..Len(rasterize_calls[k].shapes) :
                    rasterize_calls[k].shapes[i][2] \in Range(allocated_ch4_kt)
    /\ pc \in {"step5", "step6", "gridded", "write", "done"} =>
          /\ KeysOf(ch4_kt_result_rasters) = KeysOf(rasterize_calls)
          /\ KeysOf(ch4_flux_result_rasters) = KeysOf(rasterize_calls)
          /\ \A k \in 1..Len(rasterize_calls) :
                /\ ch4_kt_result_rasters[k].array = rasterize(rasterize_calls[k].shapes)
                /\ ch4_flux_result_rasters[k].array =
                      FluxRaster(ch4_kt_result_rasters[k].array,
                                 calc_conversion_factor(YearDays(rasterize_calls[k].year),
                                                        area_matrix))
    /\ printed # << >> =>
          /\ Range(KeysOf(ch4_kt_result_rasters)) = FacYears
          /\ Range(KeysOf(ch4_flux_result_rasters)) = FacYears
    /\ all_equal # << >> => Len(printed) = Cardinality(FacYears)
    /\ files # << >> =>
          /\ Len(printed) = Cardinality(FacYears)
          /\ {printed[k].year : k \in 1..Len(printed)} = FacYears
          /\ all_equal # << >>
          /\ Range(KeysOf(ch4_kt_result_rasters)) = FacYears
          /\ Range(KeysOf(ch4_flux_result_rasters)) = FacYears

\* a run over two years has allocated, rasterized both years, checked both
\* and written its files
C12_Witness ==
    /\ pc = "done"
    /\ Cardinality(FacYears) = 2
    /\ Len(rasterize_calls) = 2
    /\ Len(printed) = 2
    /\ all_equal # << >>
    /\ files # << >>

-----------------------------------------------------------------------------
(* Claims about a group without an inventory row (SpecLookup).             *)

\* the places of the rows of a table that hold a (state, year)
RowsFor(inventory_df, state, year) ==
    {k \in 1..Len(inventory_df) :
        inventory_df[k].state_code = state /\ inventory_df[k].year = year}

\* the ch4_kt of the first of them
FirstTotal(inventory_df, state, year) ==
    LET ks == RowsFor(inventory_df, state, year)
    IN  inventory_df[CHOOSE k \in ks : \A j \in ks : k <= j].ch4_kt

\* a facility row whose (state, year) has no row in the inventory
Orphan(i) ==
    RowsFor(EPA_ferro_emissions, ferro_facilities_gdf[i].state_code,
            ferro_facilities_gdf[i].year) = {}

\* nothing of STEP 4 to STEP 6 has been assigned, printed or written
NothingComputed ==
    /\ allocated_ch4_kt = << >>
    /\ sum_check = << >>
    /\ rasterize_calls = << >>
    /\ ch4_kt_result_rasters = << >>
    /\ ch4_flux_result_rasters = << >>
    /\ printed = << >>
    /\ all_equal = << >>
    /\ files = << >>

\* what holds of every state, for C13
MissingRowRaises ==
    /\ pc = "return" =>
          LET ks == RowsFor(fn_args.inventory_df, fn_args.name[1], fn_args.name[2])
              v == fn_args.fac_emissions
          IN  /\ fn_ret.raised <=> ks = {}
              /\ fn_ret.raised => fn_ret.value = << >>
              /\ ~fn_ret.raised =>
                    /\ Len(fn_ret.value) = Len(v)
                    /\ \A i \in 1..Len(v) :
                          fn_ret.value[i] =
                              FillNa0(Mul(Div(v[i], PdSum(v)),
                                          FirstTotal(fn_args.inventory_df,
                                                     fn_args.name[1], fn_args.name[2])))
    /\ pc \in {"raised", "sum_check", "step5", "step6", "gridded", "write", "done"} =>
          (pc = "raised" <=> \E i \in 1..Len(ferro_facilities_gdf) : Orphan(i))
    /\ pc = "raised" => NothingComputed

\* a run that has raised takes no further step
RaisedIsFinal == pc = "raised" => UNCHANGED vars

\* C13: the function raises exactly when the inventory has no row for the
\* (state, year) of the group, and returns nothing then; with one row or
\* several it allocates the ch4_kt of the first.  A run raises in the
\* allocation exactly when some facility row has no inventory row; the
\* allocated column is then not assigned, no year is rasterized, checked or
\* written, and the run takes no further step.
C13_MissingRowRaises ==
    /\ []MissingRowRaises
    /\ [][RaisedIsFinal]_vars

\* a run has raised on a table of two facilities, the first with an inventory
\* row and a positive total, the second without one
C13_Witness ==
    /\ pc = "raised"
    /\ Len(ferro_facilities_gdf) = 2
    /\ ~Orphan(1)
    /\ Lt(R(0), FirstTotal(EPA_ferro_emissions, ferro_facilities_gdf[1].state_code,
                           ferro_facilities_gdf[1].year))
    /\ Lt(R(0), ferro_facilities_gdf[1].ch4_kt)
    /\ Orphan(2)
    /\ NothingComputed

====
